---------------------------- MODULE Spec2Model ----------------------------
(***************************************************************************)
(* The FFmpeg worker of ffmpeg-worker/server.ts: two HTTP handlers,        *)
(* POST /clip and POST /extract-audio, each a chain                        *)
(*   validate -> fetch -> stream to scratch file -> ffmpeg -> upload ->    *)
(*   getPublicUrl -> unlink scratch files -> respond                       *)
(* with one try/catch around everything after validation.                  *)
(*                                                                         *)
(* A handler runs on Node's single thread: the code between two awaits is  *)
(* one atomic step.  The steps of different requests interleave at the     *)
(* awaits (fetch, the write stream's finish, the ffmpeg subprocess, the    *)
(* upload).  The environment (remote server, file system, ffmpeg, storage  *)
(* service, clock) decides the outcome of each step.                       *)
(*                                                                         *)
(* Only the responses the handlers themselves send (res.json /             *)
(* res.status().json) are modelled.  An exception that escapes a handler   *)
(* leaves its request in "rejected": what the framework or the runtime     *)
(* does with the rejected promise is outside server.ts.                    *)
(***************************************************************************)
EXTENDS Integers, Sequences, FiniteSets, TLC

(* Bounds of the model. *)
NumReqs == 2
MaxClock == 1

Reqs == 1..NumReqs

(* An optional JavaScript value: <<>> is undefined, <<v>> is the value v. *)
Absent == <<>>
Some(v) == <<v>>

(* JavaScript truthiness of an optional string: undefined and "" are falsy. *)
Falsy(f) == f = Absent \/ f = Some("")

(* The request bodies the model draws from. *)
UrlVals == {Absent, Some("http://src/v.mp4")}
StartVals == {Absent, Some(0), Some(5)}
EndVals == {Absent, Some(3)}
NameVals == {Absent, Some(""), Some("a")}

ClipBodies ==
    [kind : {"clip"}, inputUrl : UrlVals, startTime : StartVals,
     endTime : EndVals, fileName : NameVals]

AudioBodies ==
    [kind : {"audio"}, inputUrl : UrlVals, startTime : {Absent},
     endTime : {Absent}, fileName : NameVals]

NoReq ==
    [kind |-> "none", inputUrl |-> Absent, startTime |-> Absent,
     endTime |-> Absent, fileName |-> Absent]

VARIABLES
    now,              \* the value Date.now() returns
    alive,            \* FALSE once the Node process has died
    pc,               \* pc[r]: where request r's handler is suspended
    req,              \* req[r]: the kind and body of request r
    tempInput,        \* tempInput[r]: input scratch path ("" outside the handler's scope)
    tempOutput,       \* tempOutput[r]: output scratch path
    storageFileName,  \* storageFileName[r]: /extract-audio's storage key
    command,          \* command[r]: the command line handed to exec
    log,              \* log[r]: the collaborator calls and outcomes of request r, in order
    resp,             \* resp[r]: the HTTP responses the handler sent for r, in order
    disk,             \* the files of the scratch directory: [path, by]
    bucket,           \* the objects of the storage service: [bucket, key, by, contentType]
    crossDeleted      \* TRUE once a cleanup removed a file written by another in-flight request

vars ==
    <<now, alive, pc, req, tempInput, tempOutput, storageFileName, command, log,
      resp, disk, bucket, crossDeleted>>

InFlightPcs == {"fetching", "streaming", "transcoding", "uploading"}

InFlight(r) == pc[r] \in InFlightPcs

Ev(e, a) == [ev |-> e, arg |-> a]

Events(r, e) == {i \in 1..Len(log[r]) : log[r][i].ev = e}

Did(r, e, a) == \E i \in 1..Len(log[r]) : log[r][i] = Ev(e, a)

-----------------------------------------------------------------------------
(* Pure functions of the handlers. *)

ClipValidNoEndTime(b) ==
    ~(Falsy(b.inputUrl) \/ b.startTime = Absent \/ Falsy(b.fileName))

(* The validation with !startTime and !endTime: it rejects a time of 0.     *)
ClipValidTruthyTimes(b) ==
    ~(Falsy(b.inputUrl) \/ b.startTime \in {Absent, Some(0)}
        \/ b.endTime \in {Absent, Some(0)} \/ Falsy(b.fileName))

ClipValid(b) ==
    ~(Falsy(b.inputUrl) \/ b.startTime = Absent \/ b.endTime = Absent
        \/ Falsy(b.fileName))

AudioValid(b) == ~Falsy(b.inputUrl)

TempPath(prefix, t, ext) == "temp/" \o prefix \o ToString(t) \o ext

ClipTempInput(t) == TempPath("input_", t, ".mp4")

ClipTempOutput(t) == TempPath("output_", t, ".mp4")

(* The input path of /extract-audio under the prefix /clip uses.            *)
AudioTempInputClipPrefix(t) == TempPath("input_", t, ".mp4")

AudioTempInput(t) == TempPath("audio_input_", t, ".mp4")

AudioTempOutput(t) == TempPath("audio_output_", t, ".wav")

StorageFileNameNoSuffix(fileName, t) ==
    IF ~Falsy(fileName)
    THEN fileName[1] \o ".wav"
    ELSE "audio_" \o ToString(t) \o ".wav"

StorageFileName(fileName, t) ==
    IF ~Falsy(fileName)
    THEN fileName[1] \o "_audio.wav"
    ELSE "audio_" \o ToString(t) \o ".wav"

FilterComplex ==
    "scale=1080:1920:force_original_aspect_ratio=decrease,pad=1080:1920:(ow-iw)/2:(oh-ih)/2"

ClipCommand(startTime, endTime, tin, tout) ==
    "ffmpeg -ss " \o ToString(startTime[1]) \o " -to " \o ToString(endTime[1])
        \o " -i \"" \o tin \o "\" -vf \"" \o FilterComplex
        \o "\" -c:v libx264 -c:a aac -preset ultrafast -crf 30 -threads 1 -y \""
        \o tout \o "\""

AudioCommand(tin, tout) ==
    "ffmpeg -i \"" \o tin \o "\" -ac 1 -ar 16000 -vn -threads 1 -y \"" \o tout \o "\""

Command(r) ==
    IF req[r].kind = "clip"
    THEN ClipCommand(req[r].startTime, req[r].endTime, tempInput[r], tempOutput[r])
    ELSE AudioCommand(tempInput[r], tempOutput[r])

Bucket == "processed-videos"

ClipStorageKeyFromPath(r) == tempOutput[r]

ClipStorageKey(r) == req[r].fileName[1]

StorageKey(r) ==
    IF req[r].kind = "clip" THEN ClipStorageKey(r) ELSE storageFileName[r]

ClipUploadOptionsNoUpsert == [contentType |-> "video/mp4", upsert |-> FALSE]

ClipUploadOptions == [contentType |-> "video/mp4", upsert |-> TRUE]

AudioUploadOptions == [contentType |-> "audio/wav", upsert |-> TRUE]

UploadOptions(r) ==
    IF req[r].kind = "clip" THEN ClipUploadOptions ELSE AudioUploadOptions

-----------------------------------------------------------------------------
(* The collaborators. *)

Exists(d, p) == \E f \in d : f.path = p

Unlink(d, p) == {f \in d : f.path # p}

WriteFile(d, p, r) == Unlink(d, p) \cup {[path |-> p, by |-> r]}

DuplicateMessage == "The resource already exists"

(* upload(key, body, {contentType, upsert}) of the storage service: with   *)
(* upsert the object under the key is replaced, without it an existing key *)
(* is an error.                                                            *)
StorageUpload(b, bkt, key, r, opts) ==
    IF opts.upsert
    THEN [ok |-> TRUE, error |-> "",
          bucket |-> {o \in b : ~(o.bucket = bkt /\ o.key = key)}
                        \cup {[bucket |-> bkt, key |-> key, by |-> r,
                               contentType |-> opts.contentType]}]
    ELSE IF \E o \in b : o.bucket = bkt /\ o.key = key
         THEN [ok |-> FALSE, error |-> DuplicateMessage, bucket |-> b]
         ELSE [ok |-> TRUE, error |-> "",
               bucket |-> b \cup {[bucket |-> bkt, key |-> key, by |-> r,
                                   contentType |-> opts.contentType]}]

(* getPublicUrl(key): a string built from the key, whether or not the object exists. *)
GetPublicUrl(bkt, key) ==
    "https://project.supabase.co/storage/v1/object/public/" \o bkt \o "/" \o key

-----------------------------------------------------------------------------
(* The HTTP responses. *)

Resp400(msg) == [status |-> 400, body |-> [error |-> msg]]

Resp500(err) == [status |-> 500, body |-> [error |-> err.message, stderr |-> err.stderr]]

Resp200(r, url) ==
    [status |-> 200,
     body |-> IF req[r].kind = "clip" THEN [clippedUrl |-> url] ELSE [audioUrl |-> url]]

Err(msg, stderr) == [message |-> msg, stderr |-> stderr]

FetchFailedMessage == "Failed to fetch video"

NoBodyMessage == "No response body"

CleanupFilesInputOnly(d, tin, tout, failIn, failOut) ==
    LET threwIn == Exists(d, tin) /\ failIn
        d1 == IF Exists(d, tin) /\ ~failIn THEN Unlink(d, tin) ELSE d
    IN  [disk |-> d1, threw |-> threwIn, removed |-> d \ d1]

(* if (fs.existsSync(tempInput)) fs.unlinkSync(tempInput);                 *)
(* if (fs.existsSync(tempOutput)) fs.unlinkSync(tempOutput);               *)
(* failIn / failOut: whether unlinkSync throws when it is called.          *)
CleanupFiles(d, tin, tout, failIn, failOut) ==
    LET threwIn == Exists(d, tin) /\ failIn
        d1 == IF Exists(d, tin) /\ ~failIn THEN Unlink(d, tin) ELSE d
        threwOut == ~threwIn /\ Exists(d1, tout) /\ failOut
        d2 == IF ~threwIn /\ Exists(d1, tout) /\ ~failOut THEN Unlink(d1, tout) ELSE d1
    IN  [disk |-> d2, threw |-> threwIn \/ threwOut, removed |-> d \ d2]

(* The handler of r returns or throws: its local constants leave scope. *)
Return(r) ==
    /\ tempInput' = [tempInput EXCEPT ![r] = ""]
    /\ tempOutput' = [tempOutput EXCEPT ![r] = ""]
    /\ storageFileName' = [storageFileName EXCEPT ![r] = ""]
    /\ command' = [command EXCEPT ![r] = ""]

Foreign(r, removed) == \E f \in removed : f.by # r /\ InFlight(f.by)

(* The catch block, entered with error err, disk d, log lg.  If an unlink  *)
(* throws in it the exception leaves the handler and no response is sent.  *)
Catch(r, err, d, lg, x) ==
    \E failIn, failOut \in BOOLEAN :
        LET c == CleanupFiles(d, tempInput[r], tempOutput[r], failIn, failOut)
        IN  /\ disk' = c.disk
            /\ crossDeleted' = (x \/ Foreign(r, c.removed))
            /\ Return(r)
            /\ IF c.threw
               THEN /\ pc' = [pc EXCEPT ![r] = "rejected"]
                    /\ log' = [log EXCEPT ![r] = lg \o <<Ev("unlink", "throws")>>]
                    /\ resp' = resp
               ELSE /\ pc' = [pc EXCEPT ![r] = "done"]
                    /\ log' = [log EXCEPT ![r] = lg]
                    /\ resp' = [resp EXCEPT ![r] = Append(@, Resp500(err))]

-----------------------------------------------------------------------------
Init ==
    /\ now = 0
    /\ alive = TRUE
    /\ pc = [r \in Reqs |-> "idle"]
    /\ req = [r \in Reqs |-> NoReq]
    /\ tempInput = [r \in Reqs |-> ""]
    /\ tempOutput = [r \in Reqs |-> ""]
    /\ storageFileName = [r \in Reqs |-> ""]
    /\ command = [r \in Reqs |-> ""]
    /\ log = [r \in Reqs |-> <<>>]
    /\ resp = [r \in Reqs |-> <<>>]
    /\ disk = {}
    /\ bucket = {}
    /\ crossDeleted = FALSE

(* The clock advances between any two steps. *)
Tick ==
    /\ alive
    /\ now < MaxClock
    /\ now' = now + 1
    /\ UNCHANGED <<alive, pc, req, tempInput, tempOutput, storageFileName, command,
                   log, resp, disk, bucket, crossDeleted>>

(* Requests are numbered in the order they arrive. *)
CanArrive(r) ==
    /\ alive
    /\ pc[r] = "idle"
    /\ \A q \in Reqs : q < r => pc[q] # "idle"

(* POST /clip up to the first await: validation, the scratch paths. *)
ClipArrive(r) ==
    /\ CanArrive(r)
    /\ \E b \in ClipBodies :
        /\ req' = [req EXCEPT ![r] = b]
        /\ IF ~ClipValid(b)
           THEN /\ pc' = [pc EXCEPT ![r] = "done"]
                /\ resp' = [resp EXCEPT ![r] = Append(@,
                      Resp400("Missing required parameters: inputUrl, startTime, endTime, fileName"))]
                /\ UNCHANGED <<now, tempInput, tempOutput>>
           ELSE \E d \in 0..1 :
                /\ now + d <= MaxClock
                /\ tempInput' = [tempInput EXCEPT ![r] = ClipTempInput(now)]
                /\ tempOutput' = [tempOutput EXCEPT ![r] = ClipTempOutput(now + d)]
                /\ now' = now + d
                /\ pc' = [pc EXCEPT ![r] = "fetching"]
                /\ resp' = resp
    /\ UNCHANGED <<alive, storageFileName, command, log, disk, bucket, crossDeleted>>

(* POST /extract-audio up to the first await. *)
AudioArrive(r) ==
    /\ CanArrive(r)
    /\ \E b \in AudioBodies :
        /\ req' = [req EXCEPT ![r] = b]
        /\ IF ~AudioValid(b)
           THEN /\ pc' = [pc EXCEPT ![r] = "done"]
                /\ resp' = [resp EXCEPT ![r] = Append(@,
                      Resp400("Missing required parameter: inputUrl"))]
                /\ UNCHANGED <<now, tempInput, tempOutput, storageFileName>>
           ELSE \E d1, d2 \in 0..1 :
                /\ now + d1 + d2 <= MaxClock
                /\ tempInput' = [tempInput EXCEPT ![r] = AudioTempInput(now)]
                /\ tempOutput' = [tempOutput EXCEPT ![r] = AudioTempOutput(now + d1)]
                /\ storageFileName' = [storageFileName EXCEPT ![r] =
                      StorageFileName(b.fileName, now + d1 + d2)]
                /\ now' = now + d1 + d2
                /\ pc' = [pc EXCEPT ![r] = "fetching"]
                /\ resp' = resp
    /\ UNCHANGED <<alive, command, log, disk, bucket, crossDeleted>>

(* Fetch without the response.ok test: a non-success response is streamed   *)
(* and transcoded like a successful one.                                    *)
FetchIgnoresStatus(r) ==
    /\ alive
    /\ pc[r] = "fetching"
    /\ \E o \in {"network", "notok", "nobody", "ok"} :
        LET lg == Append(log[r], Ev("fetch", o))
        IN  CASE o \in {"ok", "notok"} ->
                  /\ disk' = WriteFile(disk, tempInput[r], r)
                  /\ pc' = [pc EXCEPT ![r] = "streaming"]
                  /\ log' = [log EXCEPT ![r] = lg]
                  /\ UNCHANGED <<resp, crossDeleted, tempInput, tempOutput,
                                 storageFileName, command>>
              [] o = "network" -> Catch(r, Err("fetch failed", Absent), disk, lg, crossDeleted)
              [] o = "nobody" -> Catch(r, Err(NoBodyMessage, Absent), disk, lg, crossDeleted)
    /\ UNCHANGED <<now, alive, req, bucket>>

(* await fetch(inputUrl) settles; on a usable response the write stream is opened. *)
Fetch(r) ==
    /\ alive
    /\ pc[r] = "fetching"
    /\ \E o \in {"network", "notok", "nobody", "ok"} :
        LET lg == Append(log[r], Ev("fetch", o))
        IN  CASE o = "ok" ->
                  /\ disk' = WriteFile(disk, tempInput[r], r)
                  /\ pc' = [pc EXCEPT ![r] = "streaming"]
                  /\ log' = [log EXCEPT ![r] = lg]
                  /\ UNCHANGED <<resp, crossDeleted, tempInput, tempOutput,
                                 storageFileName, command>>
              [] o = "network" -> Catch(r, Err("fetch failed", Absent), disk, lg, crossDeleted)
              [] o = "notok" -> Catch(r, Err(FetchFailedMessage, Absent), disk, lg, crossDeleted)
              [] o = "nobody" -> Catch(r, Err(NoBodyMessage, Absent), disk, lg, crossDeleted)
    /\ UNCHANGED <<now, alive, req, bucket>>

(* The write stream of the input scratch file settles.  "finish": the body  *)
(* is on disk and ffmpeg is started.  "writeError": the file stream emits   *)
(* 'error' and the promise rejects.  "sourceError": the body stream fails;  *)
(* pipe() forwards no error to the file stream, the promise never settles,  *)
(* and the 'error' event of the readable, which has no listener, ends the   *)
(* process.                                                                 *)
Stream(r) ==
    /\ alive
    /\ pc[r] = "streaming"
    /\ \E o \in {"finish", "writeError", "sourceError"} :
        LET lg == Append(log[r], Ev("stream", o))
        IN  CASE o = "finish" ->
                  /\ pc' = [pc EXCEPT ![r] = "transcoding"]
                  /\ command' = [command EXCEPT ![r] = Command(r)]
                  /\ log' = [log EXCEPT ![r] = Append(lg, Ev("exec", "ffmpeg"))]
                  /\ UNCHANGED <<alive, resp, disk, crossDeleted, tempInput, tempOutput,
                                 storageFileName>>
              [] o = "writeError" ->
                  /\ Catch(r, Err("write failed", Absent), disk, lg, crossDeleted)
                  /\ alive' = alive
              [] o = "sourceError" ->
                  /\ alive' = FALSE
                  /\ log' = [log EXCEPT ![r] = lg]
                  /\ UNCHANGED <<pc, resp, disk, crossDeleted, tempInput, tempOutput,
                                 storageFileName, command>>
    /\ UNCHANGED <<now, req, bucket>>

ExecStderr == "ffmpeg: conversion failed"

NotFoundStderr == "/bin/sh: ffmpeg: not found"

ExecError(r, stderr) == Err("Command failed: " \o command[r] \o "\n" \o stderr, Some(stderr))

(* The size below which /extract-audio calls its output "very small".       *)
SmallAudioBytes == 1024

(* Sizes statSync can report for the output: just under and at the limit.   *)
OutputSizes == {SmallAudioBytes - 1, SmallAudioBytes}

SmallAudioWarning == "[worker] Extracted audio is very small!"

IsSmallAudio(kind, size) == kind = "audio" /\ size < SmallAudioBytes

(* statSync(tempOutput) and what the handler does with the size: both       *)
(* handlers log it, /extract-audio also warns about a small one.            *)
SizeCheck(kind, size) ==
    <<Ev("stat", ToString(size))>>
        \o (IF IsSmallAudio(kind, size) THEN <<Ev("warn", SmallAudioWarning)>> ELSE <<>>)

(* Transcode with the size check made fatal: a small audio output throws.   *)
TranscodeRejectsSmall(r) ==
    /\ alive
    /\ pc[r] = "transcoding"
    /\ \E o \in {"ok", "nonzero", "notfound"} :
        LET lg == Append(log[r], Ev("exit", o))
        IN  CASE o = "ok" ->
                  /\ Exists(disk, tempInput[r])
                  /\ \E size \in OutputSizes :
                        LET lgs == lg \o SizeCheck(req[r].kind, size)
                        IN  IF IsSmallAudio(req[r].kind, size)
                            THEN Catch(r, Err(SmallAudioWarning, Absent),
                                       WriteFile(disk, tempOutput[r], r), lgs, crossDeleted)
                            ELSE /\ log' = [log EXCEPT ![r] =
                                              lgs \o <<Ev("upload", StorageKey(r))>>]
                                 /\ disk' = WriteFile(disk, tempOutput[r], r)
                                 /\ pc' = [pc EXCEPT ![r] = "uploading"]
                                 /\ UNCHANGED <<resp, crossDeleted, tempInput, tempOutput,
                                                storageFileName, command>>
              [] o = "nonzero" ->
                  \E partial \in BOOLEAN :
                      Catch(r, ExecError(r, ExecStderr),
                            IF partial THEN WriteFile(disk, tempOutput[r], r) ELSE disk,
                            lg, crossDeleted)
              [] o = "notfound" ->
                  Catch(r, ExecError(r, NotFoundStderr), disk, lg, crossDeleted)
    /\ UNCHANGED <<now, alive, req, bucket>>

(* await execAsync(command) settles.  "ok": exit 0, the output scratch file *)
(* is written, statSync reads it and the upload is started.  "nonzero":     *)
(* ffmpeg exits non-zero, with or without a partial output file.            *)
(* "notfound": the shell cannot start ffmpeg.  ffmpeg cannot succeed on an  *)
(* input file that is not there.                                            *)
Transcode(r) ==
    /\ alive
    /\ pc[r] = "transcoding"
    /\ \E o \in {"ok", "nonzero", "notfound"} :
        LET lg == Append(log[r], Ev("exit", o))
        IN  CASE o = "ok" ->
                  /\ Exists(disk, tempInput[r])
                  /\ \E size \in OutputSizes :
                        log' = [log EXCEPT ![r] =
                                  lg \o SizeCheck(req[r].kind, size)
                                     \o <<Ev("upload", StorageKey(r))>>]
                  /\ disk' = WriteFile(disk, tempOutput[r], r)
                  /\ pc' = [pc EXCEPT ![r] = "uploading"]
                  /\ UNCHANGED <<resp, crossDeleted, tempInput, tempOutput,
                                 storageFileName, command>>
              [] o = "nonzero" ->
                  \E partial \in BOOLEAN :
                      Catch(r, ExecError(r, ExecStderr),
                            IF partial THEN WriteFile(disk, tempOutput[r], r) ELSE disk,
                            lg, crossDeleted)
              [] o = "notfound" ->
                  Catch(r, ExecError(r, NotFoundStderr), disk, lg, crossDeleted)
    /\ UNCHANGED <<now, alive, req, bucket>>

UploadErrorMessage == "storage: upload rejected"

UnlinkErrorMessage == "EPERM: operation not permitted, unlink"

(* await supabase.storage.from(...).upload(...) settles.  On success: the   *)
(* public URL, the cleanup, the 200 response; an unlink that throws in the  *)
(* cleanup of the try block enters the catch block.                         *)
Upload(r) ==
    /\ alive
    /\ pc[r] = "uploading"
    /\ \E o \in {"ok", "error"} :
        LET u == StorageUpload(bucket, Bucket, StorageKey(r), r, UploadOptions(r))
        IN  IF o = "error" \/ ~u.ok
            THEN /\ bucket' = bucket
                 /\ Catch(r, Err(IF o = "error" THEN UploadErrorMessage ELSE u.error, Absent),
                          disk, Append(log[r], Ev("uploaded", "error")), crossDeleted)
            ELSE LET lg == log[r] \o <<Ev("uploaded", "ok"),
                                       Ev("getPublicUrl", StorageKey(r))>>
                     url == GetPublicUrl(Bucket, StorageKey(r))
                 IN  /\ bucket' = u.bucket
                     /\ \E failIn, failOut \in BOOLEAN :
                         LET c == CleanupFiles(disk, tempInput[r], tempOutput[r],
                                               failIn, failOut)
                             x == crossDeleted \/ Foreign(r, c.removed)
                         IN  IF c.threw
                             THEN Catch(r, Err(UnlinkErrorMessage, Absent), c.disk,
                                        Append(lg, Ev("unlink", "throws")), x)
                             ELSE /\ disk' = c.disk
                                  /\ crossDeleted' = x
                                  /\ Return(r)
                                  /\ pc' = [pc EXCEPT ![r] = "done"]
                                  /\ log' = [log EXCEPT ![r] = lg]
                                  /\ resp' = [resp EXCEPT ![r] = Append(@, Resp200(r, url))]
    /\ UNCHANGED <<now, alive, req>>

Next ==
    \/ Tick
    \/ \E r \in Reqs : ClipArrive(r)
    \/ \E r \in Reqs : AudioArrive(r)
    \/ \E r \in Reqs : Fetch(r)
    \/ \E r \in Reqs : Stream(r)
    \/ \E r \in Reqs : Transcode(r)
    \/ \E r \in Reqs : Upload(r)

Spec == Init /\ [][Next]_vars

(* Every await of a request in flight settles: the fetch, the write stream, *)
(* the subprocess and the upload each eventually succeed or fail.           *)
FairSpec ==
    /\ Spec
    /\ \A r \in Reqs :
        /\ WF_vars(Fetch(r))
        /\ WF_vars(Stream(r))
        /\ WF_vars(Transcode(r))
        /\ WF_vars(Upload(r))

-----------------------------------------------------------------------------
(* Vocabulary of the properties. *)

Responded(r) == Len(resp[r]) > 0

Status(r) == resp[r][1].status

FilesOf(r) == {f \in disk : f.by = r}

FileName(r) == req[r].fileName[1]

UploadKeys(r) == {log[r][i].arg : i \in Events(r, "upload")}

(* A required field of the request's operation is absent from the body. *)
MissingRequired(r) ==
    \/ /\ req[r].kind = "clip"
       /\ \/ req[r].inputUrl = Absent
          \/ req[r].startTime = Absent
          \/ req[r].endTime = Absent
          \/ req[r].fileName = Absent
    \/ /\ req[r].kind = "audio"
       /\ req[r].inputUrl = Absent

(* The request was received and its body passed the handler's validation. *)
PassedValidation(r) ==
    \/ req[r].kind = "clip" /\ ClipValid(req[r])
    \/ req[r].kind = "audio" /\ AudioValid(req[r])

(* The step sends a response for r. *)
Responds(r) == Len(resp'[r]) > Len(resp[r])

-----------------------------------------------------------------------------
(* C1: a /clip request without inputUrl, startTime, endTime or fileName,    *)
(* and an /extract-audio request without inputUrl, is answered 400; no      *)
(* scratch file is created for it and nothing is fetched, transcoded or     *)
(* uploaded.                                                                *)
C1_MissingFieldIs400 ==
    \A r \in Reqs :
        MissingRequired(r) =>
            /\ pc[r] = "done"
            /\ Len(resp[r]) = 1
            /\ Status(r) = 400
            /\ log[r] = <<>>
            /\ FilesOf(r) = {}
            /\ tempInput[r] = "" /\ tempOutput[r] = ""

C1_Witness ==
    \E r1, r2 \in Reqs :
        /\ req[r1].kind = "clip" /\ req[r1].endTime = Absent /\ req[r1].inputUrl # Absent
        /\ req[r2].kind = "audio" /\ req[r2].inputUrl = Absent
        /\ Responded(r1) /\ Responded(r2)

(* C2: in the state a response is sent in, no file exists at the request's  *)
(* input scratch path or at its output scratch path, whichever stage        *)
(* failed; and a request never has more than two scratch files on disk.     *)
C2_NoScratchAtResponse ==
    /\ [](\A r \in Reqs : Cardinality(FilesOf(r)) <= 2)
    /\ [][\A r \in Reqs :
            Responds(r) =>
                /\ ~Exists(disk', tempInput[r])
                /\ ~Exists(disk', tempOutput[r])
                /\ {f \in disk' : f.by = r} = {}]_vars

C2_Witness ==
    \E r1, r2 \in Reqs :
        /\ Responded(r1) /\ Status(r1) = 500 /\ Did(r1, "exit", "nonzero")
        /\ Responded(r2) /\ Status(r2) = 200
        /\ disk = {}

(* C3: requests in flight together never share a scratch path, and no       *)
(* cleanup removes a file written by another request in flight.             *)
C3_Claim ==
    /\ \A r1, r2 \in Reqs :
        (r1 # r2 /\ InFlight(r1) /\ InFlight(r2)) =>
            {tempInput[r1], tempOutput[r1]} \cap {tempInput[r2], tempOutput[r2]} = {}
    /\ ~crossDeleted

(* C4: a /clip request answered 200 was uploaded to "processed-videos"      *)
(* under its fileName, its clippedUrl is the public URL of that key, and    *)
(* in the state the response is sent in both scratch paths are absent.      *)
C4_ClipSuccess ==
    /\ [](\A r \in Reqs :
            (req[r].kind = "clip" /\ Responded(r) /\ Status(r) = 200) =>
                /\ UploadKeys(r) = {FileName(r)}
                /\ Did(r, "uploaded", "ok")
                /\ \E o \in bucket :
                    /\ o.bucket = "processed-videos"
                    /\ o.key = FileName(r)
                    /\ o.contentType = "video/mp4"
                /\ resp[r][1].body =
                    [clippedUrl |-> GetPublicUrl("processed-videos", FileName(r))])
    /\ [][\A r \in Reqs :
            (req[r].kind = "clip" /\ Responds(r) /\ resp'[r][1].status = 200) =>
                /\ ~Exists(disk', tempInput[r])
                /\ ~Exists(disk', tempOutput[r])]_vars

C4_Witness ==
    \E r \in Reqs : req[r].kind = "clip" /\ Responded(r) /\ Status(r) = 200

(* C5: a fetch that returns a non-success status ends the request with a    *)
(* 500 whose error is the fetch failure's message, and neither ffmpeg nor   *)
(* the upload is invoked.                                                   *)
C5_Claim ==
    \A r \in Reqs :
        Did(r, "fetch", "notok") =>
            /\ Len(resp[r]) = 1
            /\ Status(r) = 500
            /\ resp[r][1].body.error = FetchFailedMessage
            /\ Events(r, "exec") = {}
            /\ Events(r, "upload") = {}

(* C6: an ffmpeg that exits non-zero, or cannot be started, ends the        *)
(* request with a 500 whose stderr is the captured output, and neither the  *)
(* upload nor getPublicUrl is invoked.                                      *)
C6_Claim ==
    \A r \in Reqs :
        (Did(r, "exit", "nonzero") \/ Did(r, "exit", "notfound")) =>
            /\ Len(resp[r]) = 1
            /\ Status(r) = 500
            /\ resp[r][1].body.stderr =
                  Some(IF Did(r, "exit", "nonzero") THEN ExecStderr ELSE NotFoundStderr)
            /\ Events(r, "upload") = {}
            /\ Events(r, "getPublicUrl") = {}

(* C7: a request that passed validation gets exactly one response: never    *)
(* two, and, every step settling, eventually one.  In the form a finite run *)
(* refutes: a validated request that has no response yet still has a step   *)
(* to take.                                                                 *)
Pending(r) == ENABLED (Fetch(r) \/ Stream(r) \/ Transcode(r) \/ Upload(r))

C7_Claim ==
    \A r \in Reqs :
        /\ Len(resp[r]) <= 1
        /\ PassedValidation(r) => (Len(resp[r]) = 1 \/ Pending(r))

(* C8 as stated: an /extract-audio request that carries fileName = x and is *)
(* answered 200 uploaded under x followed by "_audio.wav" and returns the   *)
(* public URL of that key.                                                  *)
AudioKeyIs(r, key) ==
    /\ UploadKeys(r) = {key}
    /\ {log[r][i].arg : i \in Events(r, "getPublicUrl")} = {key}
    /\ resp[r][1].body = [audioUrl |-> GetPublicUrl("processed-videos", key)]

C8_Claim ==
    \A r \in Reqs :
        (req[r].kind = "audio" /\ req[r].fileName # Absent
            /\ Responded(r) /\ Status(r) = 200) =>
                AudioKeyIs(r, FileName(r) \o "_audio.wav")

(* C8 amended: the same for a fileName x that is not the empty string.      *)
C8_NonEmptyNameKey ==
    \A r \in Reqs :
        (req[r].kind = "audio" /\ req[r].fileName # Absent /\ FileName(r) # ""
            /\ Responded(r) /\ Status(r) = 200) =>
                AudioKeyIs(r, FileName(r) \o "_audio.wav")

C8_Witness ==
    \E r \in Reqs :
        /\ req[r].kind = "audio" /\ req[r].fileName = Some("a")
        /\ Responded(r) /\ Status(r) = 200
        /\ \E o \in bucket : o.key = "a_audio.wav" /\ o.by = r

(* C9: two /extract-audio requests that omit fileName never have the same   *)
(* storage key, so neither upload replaces the other's object.              *)
OmitsName(r) == req[r].kind = "audio" /\ PassedValidation(r) /\ req[r].fileName = Absent

C9_Claim ==
    \A r1, r2 \in Reqs :
        (r1 # r2 /\ OmitsName(r1) /\ OmitsName(r2)) =>
            /\ (InFlight(r1) /\ InFlight(r2)) => storageFileName[r1] # storageFileName[r2]
            /\ UploadKeys(r1) \cap UploadKeys(r2) = {}

(* C10: two identical /clip requests that both succeed leave exactly one    *)
(* object under their fileName, both return the URL of that key, and no     *)
(* /clip upload is refused because the key exists.                          *)
C10_RepeatOverwrites ==
    /\ \A r1, r2 \in Reqs :
        (r1 # r2 /\ req[r1].kind = "clip" /\ req[r1] = req[r2]
            /\ Responded(r1) /\ Status(r1) = 200
            /\ Responded(r2) /\ Status(r2) = 200) =>
                /\ Cardinality({o \in bucket :
                        o.bucket = "processed-videos" /\ o.key = FileName(r1)}) = 1
                /\ resp[r1][1].body.clippedUrl = resp[r2][1].body.clippedUrl
                /\ resp[r1][1].body.clippedUrl =
                        GetPublicUrl("processed-videos", FileName(r1))
    /\ \A r \in Reqs :
        (req[r].kind = "clip" /\ Responded(r) /\ Status(r) = 500) =>
            resp[r][1].body.error # DuplicateMessage

C10_Witness ==
    \E r1, r2 \in Reqs :
        /\ r1 < r2 /\ req[r1].kind = "clip" /\ req[r1] = req[r2]
        /\ Responded(r1) /\ Status(r1) = 200
        /\ Responded(r2) /\ Status(r2) = 200
        /\ \E o \in bucket : o.key = FileName(r1) /\ o.by = r2


(* C11: within one request the stages run in the order fetch, transcode,    *)
(* upload, URL resolution; each is attempted at most once; a stage starts   *)
(* only after the previous one succeeded, so no stage follows a failed one; *)
(* a request rejected by validation enters no stage; and nothing is         *)
(* attempted after the response.                                            *)
StageOrder == <<"fetch", "stream", "exec", "exit", "upload", "uploaded", "getPublicUrl">>

IsStageEvent(e) == \E i \in 1..Len(StageOrder) : StageOrder[i] = e.ev

StageLog(r) == SelectSeq(log[r], IsStageEvent)

StageFailed(e) ==
    \/ e.ev = "fetch" /\ e.arg # "ok"
    \/ e.ev = "stream" /\ e.arg # "finish"
    \/ e.ev = "exit" /\ e.arg # "ok"
    \/ e.ev = "uploaded" /\ e.arg # "ok"

StagesInOrder(r) ==
    LET sl == StageLog(r)
    IN  /\ Len(sl) <= Len(StageOrder)
        /\ \A i \in 1..Len(sl) : sl[i].ev = StageOrder[i]
        /\ \A i \in 1..Len(sl) : StageFailed(sl[i]) => i = Len(sl)
        /\ ~PassedValidation(r) => sl = <<>>
        /\ (Responded(r) /\ Status(r) = 200) => Len(sl) = Len(StageOrder)

C11_StagesInOrder ==
    /\ [](\A r \in Reqs : StagesInOrder(r))
    /\ [][\A r \in Reqs : Responded(r) => log'[r] = log[r]]_vars

C11_Witness ==
    \E r1, r2 \in Reqs :
        /\ Responded(r1) /\ Status(r1) = 200 /\ Len(StageLog(r1)) = Len(StageOrder)
        /\ Responded(r2) /\ Status(r2) = 500 /\ Did(r2, "exit", "nonzero")

(* C12: every failure of the fetch stage (no response from the source, a    *)
(* non-success status, no body, the file stream failing, the body stream    *)
(* failing while it is written) ends the request with a 500 and an error    *)
(* body, with no transcode and no upload attempted.                         *)
FetchStageFailed(r) ==
    \/ \E o \in {"network", "notok", "nobody"} : Did(r, "fetch", o)
    \/ \E o \in {"writeError", "sourceError"} : Did(r, "stream", o)

C12_Claim ==
    \A r \in Reqs :
        FetchStageFailed(r) =>
            /\ Len(resp[r]) = 1
            /\ Status(r) = 500
            /\ resp[r][1].body.error # ""
            /\ Events(r, "exec") = {}
            /\ Events(r, "upload") = {}

(* C13: a scratch-file deletion that fails never changes the response: a    *)
(* request whose stages all succeeded still answers 200 with its URL, and a *)
(* request whose stage failed still answers 500 with that stage's error.    *)
UnlinkThrew(r) == Did(r, "unlink", "throws")

StagesSucceeded(r) == Did(r, "uploaded", "ok") /\ Events(r, "getPublicUrl") # {}

C13_Claim ==
    \A r \in Reqs :
        UnlinkThrew(r) =>
            /\ Len(resp[r]) = 1
            /\ IF StagesSucceeded(r)
               THEN /\ Status(r) = 200
                    /\ \E key \in UploadKeys(r) :
                        resp[r][1].body \in {[clippedUrl |-> GetPublicUrl(Bucket, key)],
                                             [audioUrl |-> GetPublicUrl(Bucket, key)]}
               ELSE /\ Status(r) = 500
                    /\ resp[r][1].body.error # UnlinkErrorMessage

(* C14: when the storage reports an error for the upload, the request ends  *)
(* with a 500 that carries the error's message, no public URL is resolved   *)
(* or returned, and none of its scratch files is left at the response.      *)
C14_Claim ==
    \A r \in Reqs :
        Did(r, "uploaded", "error") =>
            /\ Len(resp[r]) = 1
            /\ Status(r) = 500
            /\ resp[r][1].body.error = UploadErrorMessage
            /\ Events(r, "getPublicUrl") = {}
            /\ FilesOf(r) = {}

(* C15: in /extract-audio an output smaller than 1024 bytes is not a        *)
(* failure.  The handler goes on to the upload as for a larger output: the  *)
(* small size is followed at once by the upload under the request's key,    *)
(* the request answers 200 with {audioUrl} when the upload and the cleanup  *)
(* succeed, and a 500 of such a request always comes from a later failure   *)
(* (the upload's error or a deletion that throws), never from the size.     *)
SmallOutput(r) == req[r].kind = "audio" /\ Did(r, "stat", ToString(SmallAudioBytes - 1))

C15_SmallOutputProceeds ==
    \A r \in Reqs :
        SmallOutput(r) =>
            /\ \A i \in Events(r, "warn") :
                i < Len(log[r]) /\ log[r][i + 1] = Ev("upload", log[r][i + 1].arg)
            /\ Events(r, "warn") # {}
            /\ Cardinality(UploadKeys(r)) = 1
            /\ (Did(r, "uploaded", "ok") /\ ~UnlinkThrew(r)) =>
                /\ Len(resp[r]) = 1
                /\ Status(r) = 200
                /\ \E key \in UploadKeys(r) :
                    resp[r][1].body = [audioUrl |-> GetPublicUrl(Bucket, key)]
            /\ (Responded(r) /\ Status(r) = 500) =>
                /\ Did(r, "uploaded", "error") \/ UnlinkThrew(r)
                /\ resp[r][1].body.error \in {UploadErrorMessage, UnlinkErrorMessage}

C15_Witness ==
    \E r \in Reqs :
        /\ SmallOutput(r) /\ Did(r, "warn", SmallAudioWarning)
        /\ Responded(r) /\ Status(r) = 200
        /\ \E key \in UploadKeys(r) :
            /\ resp[r][1].body = [audioUrl |-> GetPublicUrl(Bucket, key)]
            /\ \E o \in bucket : o.key = key /\ o.by = r

(* C16 as stated: a /clip request in which inputUrl, fileName, startTime    *)
(* and endTime are all present is not answered 400, goes on to the fetch,   *)
(* and its startTime and endTime reach the ffmpeg command as they came,     *)
(* startTime = 0 and endTime below startTime included.                      *)
TimesArgs(r) ==
    "ffmpeg -ss " \o ToString(req[r].startTime[1])
        \o " -to " \o ToString(req[r].endTime[1]) \o " -i "

PassesThrough(r) ==
    /\ ~(Responded(r) /\ Status(r) = 400)
    /\ pc[r] = "fetching" \/ Events(r, "fetch") # {}
    /\ pc[r] \in {"transcoding", "uploading"} =>
        SubSeq(command[r], 1, Len(TimesArgs(r))) = TimesArgs(r)

AllPresent(r) ==
    /\ req[r].kind = "clip"
    /\ req[r].inputUrl # Absent /\ req[r].fileName # Absent
    /\ req[r].startTime # Absent /\ req[r].endTime # Absent

C16_Claim == \A r \in Reqs : AllPresent(r) => PassesThrough(r)

(* C16 amended: the same for a request whose inputUrl and fileName are not  *)
(* the empty string.                                                        *)
C16_TimesPresenceOnly ==
    \A r \in Reqs :
        (AllPresent(r) /\ ~Falsy(req[r].inputUrl) /\ ~Falsy(req[r].fileName)) =>
            PassesThrough(r)

C16_Witness ==
    \E r1, r2 \in Reqs :
        /\ AllPresent(r1) /\ req[r1].startTime = Some(0)
        /\ pc[r1] = "transcoding" /\ SubSeq(command[r1], 1, 21) = "ffmpeg -ss 0 -to 3 -i"
        /\ AllPresent(r2) /\ req[r2].startTime = Some(5) /\ req[r2].endTime = Some(3)
        /\ pc[r2] = "transcoding" /\ SubSeq(command[r2], 1, 21) = "ffmpeg -ss 5 -to 3 -i"

(* C17: within a request the input scratch path differs from the output    *)
(* scratch path, and the scratch paths of a /clip request differ from those *)
(* of an /extract-audio request, the same millisecond included; so no file  *)
(* written by a request of one kind lies at a path of a request of the      *)
(* other kind, which could then overwrite or delete it.                     *)
Paths(r) == {tempInput[r], tempOutput[r]}

OtherKind(r1, r2) == {req[r1].kind, req[r2].kind} = {"clip", "audio"}

C17_PathsApart ==
    /\ \A r \in Reqs : InFlight(r) => tempInput[r] # tempOutput[r]
    /\ \A r1, r2 \in Reqs :
        (InFlight(r1) /\ InFlight(r2) /\ OtherKind(r1, r2)) =>
            Paths(r1) \cap Paths(r2) = {}
    /\ \A r \in Reqs : \A f \in disk :
        (InFlight(r) /\ OtherKind(r, f.by)) => f.path \notin Paths(r)

C17_Witness ==
    \E r1, r2 \in Reqs : \E t \in 0..MaxClock :
        /\ req[r1].kind = "clip" /\ req[r2].kind = "audio"
        /\ Paths(r1) = {ClipTempInput(t), ClipTempOutput(t)}
        /\ Paths(r2) = {AudioTempInput(t), AudioTempOutput(t)}
        /\ pc[r1] = "uploading" /\ pc[r2] = "uploading"
        /\ \A p \in Paths(r1) \cup Paths(r2) : Exists(disk, p)

=============================================================================
